---------------------------- MODULE Spec2Model ----------------------------
(***************************************************************************)
(* Model of tnft-stratum's upstream core:                                  *)
(*   rpc/rpc.go        RPCClient: JSON-RPC transport, sick/alive breaker,  *)
(*                     daemon info cache                                   *)
(*   stratum/blocks.go BlockTemplate, nextBlob, fetchBlockTemplate         *)
(***************************************************************************)
EXTENDS Integers, Sequences, FiniteSets, TLC

(***************************************************************************)
(* Bounds of the model                                                     *)
(***************************************************************************)
\* failures are no longer injected once sickRate has reached this value
MaxSickRate == 7
\* failures on a not-sick endpoint are no longer injected at this FailsCount
MaxFailsCount == 10
\* the daemon's block heights are 1..MaxHeight
MaxHeight == 2
\* the daemon's reserved offsets are 0..MaxOffset
MaxOffset == 1
\* number of distinct blocks (template generations) the daemon announces
\* where whole snapshots are told apart
NGens == 2
\* number of concurrent template readers (miner workers)
NReaders == 1
\* number of concurrent miner sessions calling nextBlob
NMiners == 2
\* number of goroutines calling the health monitor at once
NCallers == 2

(***************************************************************************)
(* Program constants                                                       *)
(***************************************************************************)
\* rpc.go:184  if r.sickRate >= 5
SickThreshold == 5
\* rpc.go:193  if r.successRate >= 5
AliveThreshold == 5
\* blocks.go:30  blobBuff[b.reservedOffset+4 : b.reservedOffset+7]
ReservedLen == 7

VARIABLES
    \* RPCClient (rpc.go:17-32)
    sick, sickRate, successRate, FailsCount, info,
    \* the process: TRUE once a goroutine has panicked
    crashed,
    \* what the last step reported to the health monitor:
    \* "markSick", "markAlive" or "none"
    report,
    \* history of the health reports made so far
    hist,
    \* StratumServer.blockTemplate: the published snapshot's address, 0 = nil
    blockTemplate,
    \* the BlockTemplate objects alive on the heap, by address
    heap,
    \* each published snapshot as it was when it was stored
    published,
    \* the goroutine running fetchBlockTemplate: its position and locals
    refresher,
    \* the goroutines reading the current template: position and locals
    readers,
    \* the template the miner sessions work on, as it was published
    snapshot,
    \* the byte arrays behind the slices, by address: the snapshot's buffer
    \* and the scratch buffers of the nextBlob calls in progress
    arrays,
    \* the goroutines calling nextBlob: position and locals
    miners,
    \* RPCClient's embedded sync.RWMutex: its writer (0: none) and readers
    mutex,
    \* the goroutines calling markSick, markAlive and Sick
    callers,
    \* the health state after the calls made so far, one after the other
    \* in the order in which they took the lock
    linear,
    \* the last RPC client operation as its caller saw it: the operation,
    \* the daemon's response to it, and what the operation returned
    call

healthVars == <<sick, sickRate, successRate, FailsCount>>
blobVars == <<snapshot, arrays, miners>>
lockVars == <<mutex, callers, linear>>

(***************************************************************************)
(* Health monitor (rpc.go:171-199).  Each of the three methods runs under  *)
(* r.Lock()/r.RLock(), so each is one atomic step on the guarded fields.   *)
(***************************************************************************)
Health == [sick |-> sick, sickRate |-> sickRate,
           successRate |-> successRate, FailsCount |-> FailsCount]

\* faulty variant: the counter is bumped on every failure
markSick_always(c) ==
    LET n == c.sickRate + 1 IN
    [sick        |-> (c.sick \/ n >= SickThreshold),
     sickRate    |-> n,
     successRate |-> 0,
     FailsCount  |-> c.FailsCount + 1]

\* faulty variant: the endpoint turns sick one failure late
markSick_late(c) ==
    LET n == c.sickRate + 1 IN
    [sick        |-> (c.sick \/ n > SickThreshold),
     sickRate    |-> n,
     successRate |-> 0,
     FailsCount  |-> IF ~c.sick THEN c.FailsCount + 1 ELSE c.FailsCount]

\* faulty variant: the counter is bumped only by the failure that turns the
\* endpoint sick
markSick_edge(c) ==
    LET n == c.sickRate + 1 IN
    [sick        |-> (c.sick \/ n >= SickThreshold),
     sickRate    |-> n,
     successRate |-> 0,
     FailsCount  |-> IF ~c.sick /\ n >= SickThreshold THEN c.FailsCount + 1
                                                      ELSE c.FailsCount]

\* rpc.go:177-188
markSick(c) ==
    LET n == c.sickRate + 1 IN
    [sick        |-> (c.sick \/ n >= SickThreshold),
     sickRate    |-> n,
     successRate |-> 0,
     FailsCount  |-> IF ~c.sick THEN c.FailsCount + 1 ELSE c.FailsCount]

\* faulty variant: symmetric reset, any success clears the failure streak
markAlive_symmetric(c) ==
    LET n == c.successRate + 1 IN
    IF n >= AliveThreshold
      THEN [sick |-> FALSE, sickRate |-> 0, successRate |-> 0,
            FailsCount |-> c.FailsCount]
      ELSE [sick |-> c.sick, sickRate |-> 0, successRate |-> n,
            FailsCount |-> c.FailsCount]

\* faulty variant: the endpoint recovers one success early
markAlive_early(c) ==
    LET n == c.successRate + 1 IN
    IF n >= AliveThreshold - 1
      THEN [sick |-> FALSE, sickRate |-> 0, successRate |-> 0,
            FailsCount |-> c.FailsCount]
      ELSE [sick |-> c.sick, sickRate |-> c.sickRate, successRate |-> n,
            FailsCount |-> c.FailsCount]

\* rpc.go:190-199
markAlive(c) ==
    LET n == c.successRate + 1 IN
    IF n >= AliveThreshold
      THEN [sick |-> FALSE, sickRate |-> 0, successRate |-> 0,
            FailsCount |-> c.FailsCount]
      ELSE [sick |-> c.sick, sickRate |-> c.sickRate, successRate |-> n,
            FailsCount |-> c.FailsCount]

\* rpc.go:171-175
Sick == sick


(***************************************************************************)
(* Daemon replies.  A getblocktemplate result (rpc.go:34-42) carries a     *)
(* hex blob, modelled as a sequence of one-character strings.              *)
(***************************************************************************)
HexDigits == <<"0", "1", "2", "3", "4", "5", "6", "7",
               "8", "9", "a", "b", "c", "d", "e", "f">>

\* encoding/hex reverseHexTable: the digit's value, or 255 for a
\* character that is no lower-case hex digit (the blobs here are lower case)
HexVal(ch) ==
    IF \E i \in 1..16 : HexDigits[i] = ch
      THEN (CHOOSE i \in 1..16 : HexDigits[i] = ch) - 1
      ELSE 255

RECURSIVE DecodeFrom(_, _, _)
DecodeFrom(s, j, acc) ==
    IF j <= Len(s)
      THEN LET a == HexVal(s[j - 1])
               b == HexVal(s[j])
           IN  IF a > 15 \/ b > 15
                 THEN [bytes |-> acc, err |-> TRUE]
                 ELSE DecodeFrom(s, j + 2, Append(acc, a * 16 + b))
      ELSE [bytes |-> acc, err |-> (Len(s) % 2 = 1)]

\* hex.DecodeString as called at blocks.go:64: the bytes decoded before
\* the first bad character or the dangling last character, and whether
\* an error was returned
DecodeString(s) == DecodeFrom(s, 2, <<>>)

\* hex.EncodeToString, used to write down the daemon's blobs
HexEncode(bytes) ==
    [k \in 1..(2 * Len(bytes)) |->
        LET byte == bytes[(k + 1) \div 2]
        IN  IF k % 2 = 1 THEN HexDigits[(byte \div 16) + 1]
                         ELSE HexDigits[(byte % 16) + 1]]

\* rpc.go:34-42  GetBlockTemplateReply
Reply(prev, h, blob, off, d, seed, next) ==
    [Difficulty |-> d, Height |-> h, Blob |-> blob, ReservedOffset |-> off,
     PrevHash |-> prev, SeedHash |-> seed, NextSeedHash |-> next]

\* the zero value, standing in where a reply pointer is nil
ZeroReply == Reply("", 0, <<>>, 0, 0, "", "")

\* a block's n bytes, different for every generation g
BlockBytes(n, g) == [i \in 1..n |-> (16 * g + i) % 256]

PrevHashes == {"", "abc", "xyz"}
Heights == 1..MaxHeight
Offsets == 0..MaxOffset
LongBlob == HexEncode(BlockBytes(ReservedLen + MaxOffset, 1))

\* well-formed blobs of 0, ReservedLen and ReservedLen+MaxOffset bytes, a
\* blob with a character that is no hex digit, and one of odd length
Blobs ==
    { HexEncode(BlockBytes(n, 1)) : n \in {0, ReservedLen, ReservedLen + MaxOffset} }
    \cup { [LongBlob EXCEPT ![5] = "x"] }
    \cup { SubSeq(LongBlob, 1, Len(LongBlob) - 1) }

\* every combination of previous hash, height, blob and reserved offset
RefreshReplies ==
    { Reply(p, h, b, o, 100 * h, "seed", "next") :
        p \in PrevHashes, h \in Heights, b \in Blobs, o \in Offsets }

\* one reply per announced block, all fields different between blocks
GenReply(g) ==
    Reply("hash" \o ToString(g), g, HexEncode(BlockBytes(ReservedLen, g)), 0,
          100 * g, "seed" \o ToString(g), "next" \o ToString(g))

GenReplies == { GenReply(g) : g \in 1..NGens }

(***************************************************************************)
(* RPC transport (rpc.go:81-160).  A response is what one HTTP exchange    *)
(* with the daemon produced:                                               *)
(*   NetErr        client.Do returned an error (rpc.go:137)                *)
(*   BadJson       the body is no JSON envelope (rpc.go:151)               *)
(*   NullEnvelope  the body is the JSON value null                         *)
(*   ErrorMsg      envelope with error {"message": <string>}               *)
(*   ErrorNoMsg    envelope with an error object without string message    *)
(*   NoResult      envelope with neither error nor result                  *)
(*   BadResult     envelope whose result has the wrong shape               *)
(*   Result        envelope whose result decodes into the reply type       *)
(***************************************************************************)
Kinds == {"NetErr", "BadJson", "NullEnvelope", "ErrorMsg", "ErrorNoMsg",
          "NoResult", "BadResult", "Result"}

\* status: the HTTP status of the response (resp.StatusCode); message: the
\* "message" member of the envelope's error object, when it is a string
Response(kind, payload) ==
    [kind |-> kind, payload |-> payload, message |-> "", status |-> 200]

\* the texts of the daemon's error messages
Messages == {"X", "Core is busy"}

\* the responses of a daemon whose well-formed results are R
Responses(R, zero) ==
    { Response(k, zero) : k \in Kinds \ {"Result", "ErrorMsg"} }
    \cup { [Response("ErrorMsg", zero) EXCEPT !.message = m] : m \in Messages }
    \cup { Response("Result", x) : x \in R }

\* the same bodies, each sent with the HTTP status 500
HttpErrors(Rs) ==
    { [r EXCEPT !.status = 500] : r \in { x \in Rs : x.kind # "NetErr" } }

\* an HTTP-level error: a status outside 200..399 (the test that is
\* commented out at rpc.go:144)
HttpError(resp) == resp.status < 200 \/ resp.status >= 400

\* faulty variant: an error object is returned without a failure report
doPost_errorNotReported(resp) ==
    CASE resp.kind = "NetErr" ->
           [report |-> "markSick", panic |-> FALSE, err |-> "TransportError"]
      [] resp.kind = "BadJson" ->
           [report |-> "markSick", panic |-> FALSE, err |-> "EnvelopeError"]
      [] resp.kind = "NullEnvelope" ->
           [report |-> "none", panic |-> TRUE, err |-> ""]
      [] resp.kind = "ErrorMsg" ->
           [report |-> "none", panic |-> FALSE, err |-> resp.message]
      [] resp.kind = "ErrorNoMsg" ->
           [report |-> "none", panic |-> TRUE, err |-> ""]
      [] OTHER ->
           [report |-> "none", panic |-> FALSE, err |-> ""]

\* rpc.go:128-160: what doPost reports to the health monitor, whether it
\* panics (nil rpcResp at :155, failed type assertion at :157), and the
\* error it returns ("" is nil).  resp.status is not looked at: the test
\* of resp.StatusCode at :143-147 is commented out.
doPost(resp) ==
    CASE resp.kind = "NetErr" ->
           [report |-> "markSick", panic |-> FALSE, err |-> "TransportError"]
      [] resp.kind = "BadJson" ->
           [report |-> "markSick", panic |-> FALSE, err |-> "EnvelopeError"]
      [] resp.kind = "NullEnvelope" ->
           [report |-> "none", panic |-> TRUE, err |-> ""]
      [] resp.kind = "ErrorMsg" ->
           [report |-> "markSick", panic |-> FALSE, err |-> resp.message]
      [] resp.kind = "ErrorNoMsg" ->
           [report |-> "markSick", panic |-> TRUE, err |-> ""]
      [] OTHER ->
           [report |-> "none", panic |-> FALSE, err |-> ""]

\* rpc.go:81-92, 94-105, 115-126: doPost, then json.Unmarshal of a present
\* result.  isNil: the reply pointer returned is nil.
Call(resp, zero) ==
    LET p == doPost(resp) IN
    IF p.panic \/ p.err # ""
      THEN [report |-> p.report, panic |-> p.panic, err |-> p.err,
            isNil |-> TRUE, reply |-> zero]
    ELSE IF resp.kind = "NoResult"
      THEN [report |-> p.report, panic |-> FALSE, err |-> "",
            isNil |-> TRUE, reply |-> zero]
    ELSE IF resp.kind = "BadResult"
      THEN [report |-> p.report, panic |-> FALSE, err |-> "DecodeError",
            isNil |-> FALSE, reply |-> zero]
    ELSE [report |-> p.report, panic |-> FALSE, err |-> "",
          isNil |-> FALSE, reply |-> resp.payload]

\* rpc.go:81-92
GetBlockTemplate(resp) == Call(resp, ZeroReply)

\* rpc.go:44-50, 94-105
ZeroInfo == [Height |-> 0, Status |-> ""]
InfoReplies == { [Height |-> h, Status |-> "OK"] : h \in Heights }
GetInfo(resp) == Call(resp, ZeroInfo)

\* rpc.go:115-126
GetBlockHash(resp) == Call(resp, 0)

(***************************************************************************)
(* What an operation returns to its caller: ok is the boolean of Check,    *)
(* isNil whether the pointer returned is nil, err the error ("" is nil).   *)
(***************************************************************************)
Returned(ok, isNil, err) == [ok |-> ok, isNil |-> isNil, err |-> err]

\* nothing has been returned: no call yet, or the call panicked
NoReturn == Returned(FALSE, TRUE, "")

\* rpc.go:86, 91 (and :100, :104, :120, :125): (reply, err)
CallReturn(g) ==
    IF g.panic THEN NoReturn ELSE Returned(FALSE, g.isNil, g.err)

\* rpc.go:108, :112: (rpcResp, err) as doPost returns them
PostReturn(p) ==
    IF p.panic THEN NoReturn ELSE Returned(FALSE, p.err # "", p.err)

\* rpc.go:164-168: (false, err), or after markAlive (!r.Sick(), nil)
CheckReturn(g, c) ==
    IF g.panic THEN NoReturn
    ELSE IF g.err # "" THEN Returned(FALSE, TRUE, g.err)
    ELSE Returned(~markAlive(c).sick, TRUE, "")

(***************************************************************************)
(* Recording a health report.  hist keeps, from the calls alone:           *)
(*   failRun     markSick calls since the last markAlive (counted to 5)    *)
(*   succRun     markAlive calls since the last markSick (counted to 5)    *)
(*   sinceClean  markSick calls since 5 markAlive calls last came in a row *)
(*   streaks     runs of consecutive markSick calls begun                  *)
(*   entries     times sick went from false to true                        *)
(*   aliveFails  markSick calls made while Sick() was false                *)
(*   prev        the previous report                                       *)
(***************************************************************************)
Min(a, b) == IF a < b THEN a ELSE b

InitHist == [failRun |-> 0, succRun |-> 0, sinceClean |-> 0, streaks |-> 0,
             entries |-> 0, aliveFails |-> 0, prev |-> "none"]

Recorded(rep, old, new) ==
    CASE rep = "markSick" ->
           [failRun    |-> Min(hist.failRun + 1, 5),
            succRun    |-> 0,
            sinceClean |-> Min(hist.sinceClean + 1, 5),
            streaks    |-> IF hist.prev = "markSick" THEN hist.streaks
                                                     ELSE hist.streaks + 1,
            entries    |-> IF ~old.sick /\ new.sick THEN hist.entries + 1
                                                    ELSE hist.entries,
            aliveFails |-> IF old.sick THEN hist.aliveFails
                                       ELSE hist.aliveFails + 1,
            prev       |-> "markSick"]
      [] rep = "markAlive" ->
           [failRun    |-> 0,
            succRun    |-> Min(hist.succRun + 1, 5),
            sinceClean |-> IF hist.succRun + 1 >= 5
                             THEN 0 ELSE hist.sinceClean,
            streaks    |-> hist.streaks,
            entries    |-> hist.entries,
            aliveFails |-> hist.aliveFails,
            prev       |-> "markAlive"]
      [] OTHER -> hist

\* the health monitor's step for one report
Apply(rep) ==
    LET old == Health
        new == CASE rep = "markSick"  -> markSick(old)
                 [] rep = "markAlive" -> markAlive(old)
                 [] OTHER             -> old
    IN  /\ sick' = new.sick
        /\ sickRate' = new.sickRate
        /\ successRate' = new.successRate
        /\ FailsCount' = new.FailsCount
        /\ report' = rep
        /\ hist' = Recorded(rep, old, new)

\* failures are injected up to the bounds
CanFail == sickRate < MaxSickRate /\ (sick \/ FailsCount < MaxFailsCount)

Injectable(resp) == doPost(resp).report = "markSick" => CanFail

storeVars == <<blockTemplate, heap, published, refresher, readers>>

(***************************************************************************)
(* RPC client operations, one step each: the health monitor is locked      *)
(* only to record the outcome (rpc.go:177-199).                            *)
(***************************************************************************)

\* rpc.go:81-92, called on its own
GetBlockTemplateCall(resp) ==
    LET g == GetBlockTemplate(resp) IN
    /\ ~crashed
    /\ Injectable(resp)
    /\ crashed' = g.panic
    /\ Apply(g.report)
    /\ UNCHANGED <<info, storeVars>>
    /\ UNCHANGED <<blobVars, lockVars>>

\* faulty variant: Check reports nothing on success
Check_silent(resp) ==
    LET g == GetBlockTemplate(resp) IN
    /\ ~crashed
    /\ Injectable(resp)
    /\ crashed' = g.panic
    /\ Apply(g.report)
    /\ UNCHANGED <<info, storeVars>>
    /\ UNCHANGED <<blobVars, lockVars>>

\* rpc.go:162-169
Check(resp) ==
    LET g == GetBlockTemplate(resp) IN
    /\ ~crashed
    /\ Injectable(resp)
    /\ crashed' = g.panic
    /\ Apply(IF g.report = "markSick" THEN "markSick"
             ELSE IF g.panic \/ g.err # "" THEN "none"
             ELSE "markAlive")
    /\ UNCHANGED <<info, storeVars>>
    /\ UNCHANGED <<blobVars, lockVars>>

\* faulty variant: a refreshed info also reports the endpoint alive
UpdateInfo_reportsAlive(resp) ==
    LET g == GetInfo(resp) IN
    /\ ~crashed
    /\ Injectable(resp)
    /\ crashed' = g.panic
    /\ Apply(IF g.report = "markSick" THEN "markSick"
             ELSE IF g.panic \/ g.err # "" THEN "none"
             ELSE "markAlive")
    /\ info' = IF ~g.panic /\ g.err = ""
                 THEN [stored |-> TRUE, isNil |-> g.isNil, reply |-> g.reply]
                 ELSE info
    /\ UNCHANGED storeVars
    /\ UNCHANGED <<blobVars, lockVars>>

\* rpc.go:201-207
UpdateInfo(resp) ==
    LET g == GetInfo(resp) IN
    /\ ~crashed
    /\ Injectable(resp)
    /\ crashed' = g.panic
    /\ Apply(g.report)
    /\ info' = IF ~g.panic /\ g.err = ""
                 THEN [stored |-> TRUE, isNil |-> g.isNil, reply |-> g.reply]
                 ELSE info
    /\ UNCHANGED storeVars
    /\ UNCHANGED <<blobVars, lockVars>>

\* rpc.go:209-212: the pointer last stored, nil when none was stored
Info ==
    IF info.stored /\ ~info.isNil
      THEN [isNil |-> FALSE, reply |-> info.reply]
      ELSE [isNil |-> TRUE, reply |-> ZeroInfo]

\* rpc.go:107-109
SubmitBlock(resp) ==
    LET p == doPost(resp) IN
    /\ ~crashed
    /\ Injectable(resp)
    /\ crashed' = p.panic
    /\ Apply(p.report)
    /\ UNCHANGED <<info, storeVars>>
    /\ UNCHANGED <<blobVars, lockVars>>

\* rpc.go:111-113
ValidateAddress(resp) ==
    LET p == doPost(resp) IN
    /\ ~crashed
    /\ Injectable(resp)
    /\ crashed' = p.panic
    /\ Apply(p.report)
    /\ UNCHANGED <<info, storeVars>>
    /\ UNCHANGED <<blobVars, lockVars>>

\* rpc.go:115-126
GetBlockHashCall(resp) ==
    LET g == GetBlockHash(resp) IN
    /\ ~crashed
    /\ Injectable(resp)
    /\ crashed' = g.panic
    /\ Apply(g.report)
    /\ UNCHANGED <<info, storeVars>>
    /\ UNCHANGED <<blobVars, lockVars>>

(***************************************************************************)
(* Template store and refresher (blocks.go:13-22, 36-67)                   *)
(***************************************************************************)
\* blocks.go:13-22, in declaration order
Fields == <<"diffInt64", "height", "difficulty", "reservedOffset",
            "prevHash", "buffer", "seedHash", "nextSeedHash">>

ZeroTemplate ==
    [diffInt64 |-> 0, height |-> 0, difficulty |-> 0, reservedOffset |-> 0,
     prevHash |-> "", buffer |-> <<>>, seedHash |-> "", nextSeedHash |-> ""]

\* blocks.go:55-63: the composite literal; buffer is still nil
NewTemplate(reply) ==
    [diffInt64      |-> reply.Difficulty,
     difficulty     |-> reply.Difficulty,
     height         |-> reply.Height,
     prevHash       |-> reply.PrevHash,
     reservedOffset |-> reply.ReservedOffset,
     seedHash       |-> reply.SeedHash,
     nextSeedHash   |-> reply.NextSeedHash,
     buffer         |-> <<>>]

\* faulty variant: a reply at the same height counts as new on the fallback path
Novel_sameHeight(tNil, t, reply) ==
    IF ~tNil /\ t.prevHash = reply.PrevHash
      THEN reply.PrevHash = "" /\ reply.Height >= t.height
      ELSE TRUE

\* blocks.go:45-54: whether the reply is taken as a new block, given the
\* current template t (tNil: there is none)
Novel(tNil, t, reply) ==
    IF ~tNil /\ t.prevHash = reply.PrevHash
      THEN reply.PrevHash = "" /\ reply.Height > t.height
      ELSE TRUE

\* faulty variant: the snapshot is stored before its buffer is decoded
Order_storeFirst == <<"store", "decode">>

\* blocks.go:64-65: the buffer is decoded into the private newTemplate,
\* then its address is stored
Order == <<"decode", "store">>

After(step) ==
    IF Order[1] = step THEN Order[2] ELSE "returned"

\* s.currentBlockTemplate() as called at blocks.go:43: the atomic load of
\* the published address, and the snapshot it points to
currentBlockTemplate ==
    IF blockTemplate = 0
      THEN [isNil |-> TRUE, ptr |-> 0, tpl |-> ZeroTemplate]
      ELSE [isNil |-> FALSE, ptr |-> blockTemplate, tpl |-> heap[blockTemplate]]

\* Heap addresses.  An address only identifies an object, so after every
\* step the live objects are numbered in the order in which the store, the
\* refresher and the readers refer to them; an object nothing refers to
\* any more is reclaimed.
Roots(bt, rf, rd) == <<bt, rf.new>> \o [i \in 1..NReaders |-> rd[i].ptr]

Rank(roots, a) ==
    LET first == CHOOSE k \in 1..Len(roots) :
                     /\ roots[k] = a
                     /\ \A j \in 1..(k - 1) : roots[j] # a
    IN  Cardinality({ roots[j] : j \in 1..(first - 1) } \ {0}) + 1

Rename(roots, a) == IF a = 0 THEN 0 ELSE Rank(roots, a)

\* the address of a new object: none of those in use
FreeAddr == Cardinality(DOMAIN heap) + 1

\* the next state of the store, given the references and objects a step
\* leaves behind
SetStore(bt, rf, rd, h, pub) ==
    LET roots == Roots(bt, rf, rd)
        live  == { roots[k] : k \in 1..Len(roots) } \ {0}
        at(q) == CHOOSE a \in live : Rank(roots, a) = q
    IN  /\ blockTemplate' = Rename(roots, bt)
        /\ refresher' = [rf EXCEPT !.new = Rename(roots, rf.new)]
        /\ readers' = [i \in DOMAIN rd |->
                         [rd[i] EXCEPT !.ptr = Rename(roots, rd[i].ptr)]]
        /\ heap' = [q \in 1..Cardinality(live) |-> h[at(q)]]
        /\ published' = [q \in { Rename(roots, x) : x \in (DOMAIN pub) \cap live }
                            |-> pub[at(q)]]

Empty == [p \in {} |-> ZeroTemplate]

IdleRefresher ==
    [pc |-> "idle", kind |-> "", isNil |-> TRUE, reply |-> ZeroReply,
     new |-> 0, ret |-> FALSE, err |-> "",
     cur |-> [isNil |-> TRUE, tpl |-> ZeroTemplate]]

\* blocks.go:39  if err != nil
FetchFailed(g) == g.err # ""

\* blocks.go:37-42: the call to the daemon and the error return; kind
\* keeps what the daemon answered, cur the template stored at the call
FetchCall(Rs) ==
    \E resp \in Rs :
      LET g == GetBlockTemplate(resp)
          c == currentBlockTemplate
      IN
      /\ ~crashed
      /\ refresher.pc = "idle"
      /\ Injectable(resp)
      /\ crashed' = g.panic
      /\ Apply(g.report)
      /\ refresher' =
           LET called == [refresher EXCEPT
                            !.kind = resp.kind,
                            !.cur = [isNil |-> c.isNil, tpl |-> c.tpl]]
           IN  IF g.panic THEN called
               ELSE IF FetchFailed(g)
                 THEN [called EXCEPT !.pc = "returned", !.ret = FALSE,
                                     !.err = g.err]
                 ELSE [called EXCEPT !.pc = "fetched", !.isNil = g.isNil,
                                     !.reply = g.reply, !.err = g.err]
      /\ UNCHANGED <<info, blockTemplate, heap, published, readers>>
      /\ UNCHANGED <<blobVars, lockVars, call>>

\* blocks.go:43-63: load the current template, decide, build newTemplate.
\* reply is dereferenced at :45/:47/:53, which panics on a nil reply.
FetchDecide ==
    LET t == currentBlockTemplate IN
    /\ ~crashed
    /\ refresher.pc = "fetched"
    /\ IF refresher.isNil
         THEN /\ crashed' = TRUE
              /\ UNCHANGED storeVars
         ELSE /\ crashed' = FALSE
              /\ IF Novel(t.isNil, t.tpl, refresher.reply)
                   THEN SetStore(blockTemplate,
                                 [refresher EXCEPT !.pc = Order[1],
                                                   !.new = FreeAddr],
                                 readers,
                                 [p \in DOMAIN heap \cup {FreeAddr} |->
                                    IF p = FreeAddr
                                      THEN NewTemplate(refresher.reply)
                                      ELSE heap[p]],
                                 published)
                   ELSE /\ refresher' = [refresher EXCEPT !.pc = "returned",
                                                          !.ret = FALSE]
                        /\ UNCHANGED <<blockTemplate, heap, published, readers>>
    /\ report' = "none"
    /\ UNCHANGED <<healthVars, hist, info>>
    /\ UNCHANGED <<blobVars, lockVars, call>>

\* blocks.go:64: newTemplate.buffer, _ = hex.DecodeString(reply.Blob)
FetchDecode ==
    /\ ~crashed
    /\ refresher.pc = "decode"
    /\ heap' = [heap EXCEPT ![refresher.new].buffer =
                               DecodeString(refresher.reply.Blob).bytes]
    /\ refresher' = [refresher EXCEPT !.pc = After("decode"),
                                      !.ret = (After("decode") = "returned")]
    /\ report' = "none"
    /\ UNCHANGED <<healthVars, hist, info, crashed, blockTemplate, published,
                   readers>>
    /\ UNCHANGED <<blobVars, lockVars, call>>

\* blocks.go:65-66: s.blockTemplate.Store(&newTemplate); return true
FetchStore ==
    /\ ~crashed
    /\ refresher.pc = "store"
    /\ SetStore(refresher.new,
                [refresher EXCEPT !.pc = After("store"),
                                  !.ret = (After("store") = "returned")],
                readers,
                heap,
                [p \in DOMAIN published \cup {refresher.new} |->
                   IF p = refresher.new THEN heap[p] ELSE published[p]])
    /\ report' = "none"
    /\ UNCHANGED <<healthVars, hist, info, crashed>>
    /\ UNCHANGED <<blobVars, lockVars, call>>

\* the caller takes the result; the locals go out of scope
FetchReturn ==
    /\ ~crashed
    /\ refresher.pc = "returned"
    /\ SetStore(blockTemplate, IdleRefresher, readers, heap, published)
    /\ report' = "none"
    /\ UNCHANGED <<healthVars, hist, info, crashed>>
    /\ UNCHANGED <<blobVars, lockVars, call>>

\* blocks.go:36-67, against a daemon whose responses are Rs
fetchBlockTemplate(Rs) ==
    \/ FetchCall(Rs)
    \/ FetchDecide
    \/ FetchDecode
    \/ FetchStore
    \/ FetchReturn

(***************************************************************************)
(* Readers: a miner worker loads the current template and reads its        *)
(* fields one at a time (nextBlob reads buffer and reservedOffset at       *)
(* blocks.go:28-31, fetchBlockTemplate prevHash and height at :45-47).     *)
(***************************************************************************)
Readers == 1..NReaders

IdleReader == [pc |-> "idle", ptr |-> 0, seen |-> [f \in {} |-> 0]]

ReaderLoad(i) ==
    LET t == currentBlockTemplate IN
    /\ ~crashed
    /\ readers[i].pc = "idle"
    /\ ~t.isNil
    /\ SetStore(blockTemplate, refresher,
                [readers EXCEPT ![i] = [pc |-> "reading", ptr |-> t.ptr,
                                        seen |-> [f \in {} |-> 0]]],
                heap, published)
    /\ report' = "none"
    /\ UNCHANGED <<healthVars, hist, info, crashed>>
    /\ UNCHANGED <<blobVars, lockVars, call>>

ReaderRead(i) ==
    LET r == readers[i]
        n == Cardinality(DOMAIN r.seen)
    IN
    /\ ~crashed
    /\ r.pc = "reading"
    /\ n < Len(Fields)
    /\ readers' = [readers EXCEPT ![i].seen =
                     [f \in DOMAIN r.seen \cup {Fields[n + 1]} |->
                        IF f \in DOMAIN r.seen THEN r.seen[f]
                                               ELSE heap[r.ptr][f]]]
    /\ report' = "none"
    /\ UNCHANGED <<healthVars, hist, info, crashed, blockTemplate, heap,
                   published, refresher>>
    /\ UNCHANGED <<blobVars, lockVars, call>>

ReaderDone(i) ==
    /\ ~crashed
    /\ readers[i].pc = "reading"
    /\ Cardinality(DOMAIN readers[i].seen) = Len(Fields)
    /\ SetStore(blockTemplate, refresher,
                [readers EXCEPT ![i] = IdleReader], heap, published)
    /\ report' = "none"
    /\ UNCHANGED <<healthVars, hist, info, crashed>>
    /\ UNCHANGED <<blobVars, lockVars, call>>

(***************************************************************************)
(* Blob mutator (blocks.go:24-34).  Slices are references: a slice names   *)
(* the array behind it, and the arrays are kept by address.                *)
(***************************************************************************)
Miners == 1..NMiners

\* the array behind the buffer of the template the miners work on
TemplateArray == 1

\* faulty variant: the scratch slice is the template's buffer itself
Alloc_shared(i) == TemplateArray

\* blocks.go:28  make([]byte, len(b.buffer)): a new array for each call
Alloc(i) == TemplateArray + i

\* a uint32, kept as its two 16-bit halves: the value is 65536 * hi + lo
U32(hi, lo) == [hi |-> hi, lo |-> lo]

\* faulty variant: the nonce is written least significant byte first
BigEndian_little(n) ==
    <<n.lo % 256, n.lo \div 256, n.hi % 256, n.hi \div 256>>

\* faulty variant: only the low 16 bits of the nonce are written
BigEndian_low16(n) ==
    <<0, 0, n.lo \div 256, n.lo % 256>>

\* blocks.go:25-26  binary.Write(extraBuff, binary.BigEndian, extraNonce)
\* for a uint32: the most significant byte first
BigEndian(n) ==
    <<n.hi \div 256, n.hi % 256, n.lo \div 256, n.lo % 256>>

\* a slice expression buf[lo:hi] on an array of cap bytes is in range
SliceOk(lo, hi, cap) == 0 <= lo /\ lo <= hi /\ hi <= cap

\* copy(buf[lo:hi], src): min(hi - lo, len(src)) bytes of src, written
\* from index lo (indices count from 0)
Copy(buf, lo, hi, src) ==
    [k \in 1..Len(buf) |->
        IF k - 1 >= lo /\ k - 1 < hi /\ k - lo <= Len(src)
          THEN src[k - lo]
          ELSE buf[k]]

\* the extra nonces (uint32) and instance ids (3 bytes) the sessions pass
ExtraNonces == {U32(0, 0), U32(0, 1), U32(1, 0), U32(258, 772),
                U32(65535, 65535)}
InstanceIds == {<<1, 2, 3>>, <<170, 187, 204>>}

\* blocks.go:55-65: the template fetchBlockTemplate stores for a reply
Stored(reply) ==
    [NewTemplate(reply) EXCEPT !.buffer = DecodeString(reply.Blob).bytes]

\* the templates the miners may be given: one per blob and reserved offset
BlobTemplates ==
    { Stored(r) : r \in { x \in RefreshReplies :
                            x.PrevHash = "abc" /\ x.Height = 1 } }

IdleMiner == [pc |-> "idle", extraNonce |-> U32(0, 0), instanceId |-> <<>>,
              extraBuff |-> <<>>, blobBuff |-> 0]

\* an array no slice refers to any more is reclaimed
Reclaim(as, ms) ==
    [a \in DOMAIN as |->
        IF a = TemplateArray \/ \E i \in Miners : ms[i].blobBuff = a
          THEN as[a] ELSE <<>>]

\* blocks.go:24-29: extraBuff, the scratch array and the copy of b.buffer
NextBlobCall(i, n, id) ==
    LET a == Alloc(i)
        src == arrays[TemplateArray]
    IN
    /\ ~crashed
    /\ miners[i].pc = "idle"
    /\ miners' = [miners EXCEPT ![i] =
                    [pc |-> "instance", extraNonce |-> n, instanceId |-> id,
                     extraBuff |-> BigEndian(n), blobBuff |-> a]]
    /\ arrays' = [arrays EXCEPT ![a] =
                    Copy([k \in 1..Len(src) |-> 0], 0, Len(src), src)]
    /\ report' = "none"
    /\ UNCHANGED <<healthVars, hist, info, crashed, storeVars, snapshot,
                   lockVars, call>>

\* blocks.go:30  copy(blobBuff[b.reservedOffset+4:b.reservedOffset+7],
\* instanceId); the slice expression panics when it is out of range
NextBlobInstance(i) ==
    LET m == miners[i]
        lo == snapshot.reservedOffset + 4
        hi == snapshot.reservedOffset + 7
    IN
    /\ ~crashed
    /\ m.pc = "instance"
    /\ IF SliceOk(lo, hi, Len(arrays[m.blobBuff]))
         THEN /\ arrays' = [arrays EXCEPT ![m.blobBuff] =
                              Copy(@, lo, hi, m.instanceId)]
              /\ miners' = [miners EXCEPT ![i].pc = "nonce"]
              /\ crashed' = FALSE
         ELSE /\ crashed' = TRUE
              /\ UNCHANGED <<arrays, miners>>
    /\ report' = "none"
    /\ UNCHANGED <<healthVars, hist, info, storeVars, snapshot, lockVars,
                   call>>

\* blocks.go:31  copy(blobBuff[b.reservedOffset:], extraBuff.Bytes())
NextBlobNonce(i) ==
    LET m == miners[i]
        lo == snapshot.reservedOffset
        hi == Len(arrays[m.blobBuff])
    IN
    /\ ~crashed
    /\ m.pc = "nonce"
    /\ IF SliceOk(lo, hi, hi)
         THEN /\ arrays' = [arrays EXCEPT ![m.blobBuff] =
                              Copy(@, lo, hi, m.extraBuff)]
              /\ miners' = [miners EXCEPT ![i].pc = "convert"]
              /\ crashed' = FALSE
         ELSE /\ crashed' = TRUE
              /\ UNCHANGED <<arrays, miners>>
    /\ report' = "none"
    /\ UNCHANGED <<healthVars, hist, info, storeVars, snapshot, lockVars,
                   call>>

\* blocks.go:32-33: blobBuff is handed to cnutil.ConvertBlob and the
\* result returned as hex; the locals go out of scope
NextBlobReturn(i) ==
    LET ms == [miners EXCEPT ![i] = IdleMiner] IN
    /\ ~crashed
    /\ miners[i].pc = "convert"
    /\ miners' = ms
    /\ arrays' = Reclaim(arrays, ms)
    /\ report' = "none"
    /\ UNCHANGED <<healthVars, hist, info, crashed, storeVars, snapshot,
                   lockVars, call>>

\* blocks.go:24-34, called with any extra nonce and instance id
nextBlob(i) ==
    \/ \E n \in ExtraNonces, id \in InstanceIds : NextBlobCall(i, n, id)
    \/ NextBlobInstance(i)
    \/ NextBlobNonce(i)
    \/ NextBlobReturn(i)

(***************************************************************************)
(* The health monitor's lock (rpc.go:18, 171-199).  Goroutines call        *)
(* markSick, markAlive and Sick at the same time; each statement between   *)
(* Lock and Unlock is a step of its own.  A caller's pc is "idle", "lock"  *)
(* (waiting for the mutex), the line of the statement it is about to       *)
(* execute, or "unlock".                                                   *)
(***************************************************************************)
Callers == 1..NCallers

FreeMutex == [writer |-> 0, readers |-> {}]

IdleCaller == [pc |-> "idle", op |-> "", ret |-> FALSE]

\* faulty variant: Lock does not wait for the mutex
Excluded_never(m) == FALSE

\* sync.RWMutex: Lock waits while the mutex has a writer or readers
Excluded(m) == m.writer # 0 \/ m.readers # {}

\* sync.RWMutex: RLock waits while the mutex has a writer
RExcluded(m) == m.writer # 0

\* the first statement of each method after it has the lock
FirstLine(op) ==
    CASE op = "markSick"  -> "L179"
      [] op = "markAlive" -> "L192"
      [] op = "Sick"      -> "L174"

\* a goroutine calls markSick, markAlive or Sick
Enter(i, op) ==
    /\ ~crashed
    /\ callers[i].pc = "idle"
    /\ op = "markSick" => CanFail
    /\ callers' = [callers EXCEPT ![i] = [pc |-> "lock", op |-> op,
                                          ret |-> FALSE]]
    /\ report' = "none"
    /\ UNCHANGED <<healthVars, hist, info, crashed, storeVars, blobVars,
                   mutex, linear, call>>

\* rpc.go:178, :191  r.Lock()  and  :172  r.RLock()
Lock(i) ==
    LET c == callers[i] IN
    /\ ~crashed
    /\ c.pc = "lock"
    /\ IF c.op = "Sick"
         THEN /\ ~RExcluded(mutex)
              /\ mutex' = [mutex EXCEPT !.readers = @ \cup {i}]
         ELSE /\ ~Excluded(mutex)
              /\ mutex' = [mutex EXCEPT !.writer = i]
    /\ callers' = [callers EXCEPT ![i].pc = FirstLine(c.op)]
    /\ report' = "none"
    /\ UNCHANGED <<healthVars, hist, info, crashed, storeVars, blobVars,
                   linear, call>>

\* rpc.go:179-186: the statements of markSick
MarkSickStep(i) ==
    LET pc == callers[i].pc IN
    /\ ~crashed
    /\ pc \in {"L179", "L182", "L183", "L184"}
    /\ FailsCount' = IF pc = "L179" /\ ~sick THEN FailsCount + 1
                                            ELSE FailsCount
    /\ sickRate' = IF pc = "L182" THEN sickRate + 1 ELSE sickRate
    /\ successRate' = IF pc = "L183" THEN 0 ELSE successRate
    /\ sick' = IF pc = "L184" /\ sickRate >= SickThreshold THEN TRUE ELSE sick
    /\ callers' = [callers EXCEPT ![i].pc =
                     CASE pc = "L179" -> "L182"
                       [] pc = "L182" -> "L183"
                       [] pc = "L183" -> "L184"
                       [] pc = "L184" -> "unlock"]
    /\ report' = "none"
    /\ UNCHANGED <<hist, info, crashed, storeVars, blobVars, mutex, linear,
                   call>>

\* rpc.go:192-197: the statements of markAlive
MarkAliveStep(i) ==
    LET pc == callers[i].pc IN
    /\ ~crashed
    /\ pc \in {"L192", "L193", "L194", "L195", "L196"}
    /\ successRate' = CASE pc = "L192" -> successRate + 1
                        [] pc = "L196" -> 0
                        [] OTHER       -> successRate
    /\ sick' = IF pc = "L194" THEN FALSE ELSE sick
    /\ sickRate' = IF pc = "L195" THEN 0 ELSE sickRate
    /\ callers' = [callers EXCEPT ![i].pc =
                     CASE pc = "L192" -> "L193"
                       [] pc = "L193" -> IF successRate >= AliveThreshold
                                           THEN "L194" ELSE "unlock"
                       [] pc = "L194" -> "L195"
                       [] pc = "L195" -> "L196"
                       [] pc = "L196" -> "unlock"]
    /\ report' = "none"
    /\ UNCHANGED <<FailsCount, hist, info, crashed, storeVars, blobVars,
                   mutex, linear, call>>

\* rpc.go:174  return r.sick
SickStep(i) ==
    /\ ~crashed
    /\ callers[i].pc = "L174"
    /\ callers' = [callers EXCEPT ![i].pc = "unlock", ![i].ret = sick]
    /\ report' = "none"
    /\ UNCHANGED <<healthVars, hist, info, crashed, storeVars, blobVars,
                   mutex, linear, call>>

\* rpc.go:187, :198  r.Unlock()  and  :173  defer r.RUnlock(); the call
\* is complete and takes its place in the order of the calls
Unlock(i) ==
    LET c == callers[i] IN
    /\ ~crashed
    /\ c.pc = "unlock"
    /\ mutex' = IF c.op = "Sick"
                  THEN [mutex EXCEPT !.readers = @ \ {i}]
                  ELSE [mutex EXCEPT !.writer = 0]
    /\ linear' = CASE c.op = "markSick"  -> markSick(linear)
                   [] c.op = "markAlive" -> markAlive(linear)
                   [] OTHER              -> linear
    /\ callers' = [callers EXCEPT ![i] = IdleCaller]
    /\ report' = "none"
    /\ UNCHANGED <<healthVars, hist, info, crashed, storeVars, blobVars,
                   call>>

(***************************************************************************)
(* Specifications                                                          *)
(***************************************************************************)
vars == <<sick, sickRate, successRate, FailsCount, info, crashed, report,
          hist, blockTemplate, heap, published, refresher, readers,
          snapshot, arrays, miners, mutex, callers, linear, call>>

\* no operation observed yet
NoCall == [op |-> "", resp |-> Response("", 0), ret |-> NoReturn]

\* rpc.go:67-79 (NewRPCClient): the zero health fields, no info stored
InitClient ==
    /\ sick = FALSE
    /\ sickRate = 0
    /\ successRate = 0
    /\ FailsCount = 0
    /\ info = [stored |-> FALSE, isNil |-> TRUE, reply |-> ZeroInfo]
    /\ crashed = FALSE
    /\ report = "none"
    /\ hist = InitHist
    /\ mutex = FreeMutex
    /\ callers = [i \in Callers |-> IdleCaller]
    /\ linear = [sick |-> FALSE, sickRate |-> 0, successRate |-> 0,
                 FailsCount |-> 0]
    /\ call = NoCall

\* the zero StratumServer: no template stored
InitStore ==
    /\ blockTemplate = 0
    /\ heap = Empty
    /\ published = Empty
    /\ refresher = IdleRefresher
    /\ readers = [i \in Readers |-> IdleReader]

\* the miner sessions, none inside nextBlob, given template t
InitMiners(t) ==
    /\ snapshot = t
    /\ arrays = [a \in TemplateArray..(TemplateArray + NMiners) |->
                   IF a = TemplateArray THEN t.buffer ELSE <<>>]
    /\ miners = [i \in Miners |-> IdleMiner]

Init == InitClient /\ InitStore /\ InitMiners(ZeroTemplate)

\* the RPC client: every exported operation, against every response
Next ==
    /\ \/ \E resp \in Responses(GenReplies, ZeroReply) : Check(resp)
       \/ \E resp \in Responses(GenReplies, ZeroReply) : GetBlockTemplateCall(resp)
       \/ \E resp \in Responses(InfoReplies, ZeroInfo) : UpdateInfo(resp)
       \/ \E resp \in Responses({0}, 0) : SubmitBlock(resp)
       \/ \E resp \in Responses({0}, 0) : ValidateAddress(resp)
       \/ \E resp \in Responses({0}, 0) : GetBlockHashCall(resp)
    /\ UNCHANGED call

Spec == Init /\ [][Next]_vars

\* the refresher alone, against every reply of the daemon
NextRefresh == fetchBlockTemplate(Responses(RefreshReplies, ZeroReply))

SpecRefresh == Init /\ [][NextRefresh]_vars

\* the refresher publishing the blocks a responsive daemon announces
\* while readers load the current template
NextStore ==
    \/ fetchBlockTemplate({ Response("Result", r) : r \in GenReplies })
    \/ \E i \in Readers : ReaderLoad(i) \/ ReaderRead(i) \/ ReaderDone(i)

SpecStore == Init /\ [][NextStore]_vars

\* the caller's view of an operation: which one, the daemon's response
\* to it, and what it returned
Observed(op, resp, r) == call' = [op |-> op, resp |-> resp, ret |-> r]

\* every exported operation, watched by its caller; the daemon's
\* responses to getblocktemplate are Tpl, to get_info Inf, to the other
\* methods Raw
Calls(Tpl, Inf, Raw) ==
    \/ \E resp \in Tpl :
         /\ Check(resp)
         /\ Observed("Check", resp,
                     CheckReturn(GetBlockTemplate(resp), Health))
    \/ \E resp \in Tpl :
         /\ GetBlockTemplateCall(resp)
         /\ Observed("GetBlockTemplate", resp,
                     CallReturn(GetBlockTemplate(resp)))
    \/ \E resp \in Inf :
         /\ UpdateInfo(resp)
         /\ Observed("UpdateInfo", resp, CallReturn(GetInfo(resp)))
    \/ \E resp \in Raw :
         /\ SubmitBlock(resp)
         /\ Observed("SubmitBlock", resp, PostReturn(doPost(resp)))
    \/ \E resp \in Raw :
         /\ ValidateAddress(resp)
         /\ Observed("ValidateAddress", resp, PostReturn(doPost(resp)))
    \/ \E resp \in Raw :
         /\ GetBlockHashCall(resp)
         /\ Observed("GetBlockHash", resp, CallReturn(GetBlockHash(resp)))

\* the endpoint is watched through its first run of failures
FirstRun ==
    /\ sickRate' <= SickThreshold
    /\ FailsCount' <= SickThreshold
    /\ hist'.streaks <= 1

NextCalls ==
    /\ Calls(Responses(GenReplies, ZeroReply), Responses(InfoReplies, ZeroInfo),
             Responses({0}, 0))
    /\ FirstRun

SpecCalls == Init /\ [][NextCalls]_vars

\* the same operations against a daemon, or a gateway in front of it,
\* that answers every request with an HTTP error status
NextHttp ==
    /\ Calls(HttpErrors(Responses(GenReplies, ZeroReply)),
             HttpErrors(Responses(InfoReplies, ZeroInfo)),
             HttpErrors(Responses({0}, 0)))
    /\ FirstRun

SpecHttp == Init /\ [][NextHttp]_vars

\* goroutines calling the health monitor at the same time
NextLock ==
    \E i \in Callers :
      \/ \E op \in {"markSick", "markAlive", "Sick"} : Enter(i, op)
      \/ Lock(i)
      \/ MarkSickStep(i)
      \/ MarkAliveStep(i)
      \/ SickStep(i)
      \/ Unlock(i)

SpecLock == Init /\ [][NextLock]_vars

\* miner sessions calling nextBlob on one published template
InitBlob == InitClient /\ InitStore /\ \E t \in BlobTemplates : InitMiners(t)

NextBlob == \E i \in Miners : nextBlob(i)

SpecBlob == InitBlob /\ [][NextBlob]_vars

(***************************************************************************)
(* Health monitor properties (checked under Spec)                          *)
(***************************************************************************)

\* C1: once 5 markSick calls have been made with no markAlive between
\* them, whatever the state they started from, Sick() returns true.
C1_FiveFailuresSick == hist.failRun >= 5 => Sick = TRUE

\* C1 witness: the fifth failure in a row arrives at an endpoint that was
\* healthy again after an earlier sick period
C1_Witness ==
    /\ hist.failRun = 5 /\ report = "markSick"
    /\ hist.entries = 2 /\ sickRate = 5 /\ Sick = TRUE

\* C2: a sick endpoint stays sick through the first 4 markAlive calls of a
\* run and the 5th clears sick and both streaks; sick turns false only by
\* the markAlive that completes 5 markAlive calls with no markSick between.
C2_RecoveryNeedsFive ==
    [][ /\ (sick /\ ~sick') =>
             /\ report' = "markAlive"
             /\ hist.succRun = 4 /\ hist'.succRun = 5
             /\ sickRate' = 0 /\ successRate' = 0
        /\ (sick /\ report' = "markAlive" /\ hist.succRun < 4) => sick'
        /\ (sick /\ report' = "markAlive" /\ hist.succRun = 4) =>
             (~sick' /\ sickRate' = 0 /\ successRate' = 0)
      ]_vars

\* C2 witness: the state right after a recovery
C2_Witness ==
    /\ ~sick /\ report = "markAlive" /\ hist.succRun = 5
    /\ hist.entries = 1 /\ FailsCount = 5 /\ sickRate = 0 /\ successRate = 0

\* C3: every markSick zeroes successRate and never clears sick; a
\* markAlive that does not complete 5 in a row leaves sickRate alone;
\* sickRate returns to 0 only by the markAlive completing 5 in a row; and
\* 5 failures with never 5 successes in a row between them leave it sick.
C3_AsymmetricHysteresis ==
    /\ [][ /\ report' = "markSick" => (successRate' = 0 /\ (sick => sick'))
           /\ (report' = "markAlive" /\ hist'.succRun < 5) =>
                 sickRate' = sickRate
           /\ (sickRate # 0 /\ sickRate' = 0) =>
                 (report' = "markAlive" /\ hist'.succRun = 5)
         ]_vars
    /\ [](hist.sinceClean >= 5 => sick)

\* C3 witness: the endpoint turns sick on failures that were never 5 in a
\* row: successes came between them
C3_Witness ==
    /\ sick /\ sickRate = 5 /\ report = "markSick"
    /\ hist.sinceClean = 5 /\ hist.failRun = 1 /\ hist.streaks >= 3

\* C4: FailsCount never decreases; a markSick adds exactly 1 when sick is
\* false at the call and nothing when it is true; nothing else changes it.
C4_FailsCountSteps ==
    [][ /\ FailsCount' >= FailsCount
        /\ report' = "markSick" =>
             FailsCount' = FailsCount + (IF sick THEN 0 ELSE 1)
        /\ report' # "markSick" => FailsCount' = FailsCount
      ]_vars

\* C4 witness: failures reported to an endpoint that is already sick
C4_Witness ==
    /\ report = "markSick" /\ sick /\ sickRate = 7 /\ FailsCount = 5

\* C5 as stated: FailsCount is the number of failing streaks entered, one
\* per run of failures.
C5_CountsStreaks == FailsCount = hist.streaks

\* C5 amended: FailsCount is the number of markSick calls made while
\* Sick() was false, one per failure call of a streak until the endpoint
\* turns sick: at least 5 for each time it has turned sick.
C5_CountsFailuresWhileAlive ==
    /\ FailsCount = hist.aliveFails
    /\ FailsCount >= 5 * hist.entries

\* C5 witness: one streak of failures has counted more than once, and
\* failures go on after a recovery
C5_Witness ==
    /\ hist.entries = 1 /\ ~sick /\ sickRate = 2
    /\ hist.streaks = 2 /\ FailsCount = 7

(***************************************************************************)
(* Refresher properties (checked under SpecRefresh)                        *)
(***************************************************************************)

\* C6: after a successful fetch, fetchBlockTemplate has published the
\* reply's template and returns true exactly when there was no current
\* template, or the previous hashes differ, or they are equal and empty
\* and the reply's height is greater; otherwise it returns false and the
\* stored template is the one from before the call.
C6_NoveltyPolicy ==
    (refresher.pc = "returned" /\ refresher.err = "") =>
        LET r     == refresher.reply
            cur   == refresher.cur
            now   == currentBlockTemplate
            novel == \/ cur.isNil
                     \/ r.PrevHash # cur.tpl.prevHash
                     \/ /\ r.PrevHash = cur.tpl.prevHash
                        /\ r.PrevHash = ""
                        /\ r.Height > cur.tpl.height
        IN  /\ refresher.ret = novel
            /\ novel => /\ ~now.isNil
                        /\ now.ptr = refresher.new
                        /\ now.tpl.prevHash = r.PrevHash
                        /\ now.tpl.height = r.Height
                        /\ now.tpl.diffInt64 = r.Difficulty
                        /\ now.tpl.reservedOffset = r.ReservedOffset
            /\ ~novel => /\ now.isNil = cur.isNil
                         /\ now.tpl = cur.tpl
                         /\ refresher.new = 0

\* C6 witness: the height fallback publishes, for a daemon that sends no
\* previous hash
C6_Witness ==
    /\ refresher.pc = "returned" /\ refresher.err = "" /\ refresher.ret
    /\ ~refresher.cur.isNil
    /\ refresher.cur.tpl.prevHash = "" /\ refresher.reply.PrevHash = ""
    /\ refresher.reply.Height > refresher.cur.tpl.height
    /\ currentBlockTemplate.tpl.height = refresher.reply.Height

\* C7 as stated: when the daemon's answer to the refresher's call is a
\* failure (no response, an error object, or a result of the wrong
\* shape), fetchBlockTemplate returns false, the store holds the snapshot
\* it held before the call, and nothing is raised further.
C7_FailedFetchIsNoOp ==
    refresher.kind \in {"NetErr", "ErrorMsg", "ErrorNoMsg", "BadResult"} =>
        /\ refresher.pc = "returned"
        /\ refresher.ret = FALSE
        /\ currentBlockTemplate.isNil = refresher.cur.isNil
        /\ currentBlockTemplate.tpl = refresher.cur.tpl
        /\ ~crashed

\* C8 as stated: a template that has been published holds the complete
\* decoding of the reply's blob, so encoding its buffer gives the blob
\* back.
C8_PublishedBufferComplete ==
    (refresher.pc = "returned" /\ refresher.ret) =>
        HexEncode(heap[blockTemplate].buffer) = refresher.reply.Blob

\* C9 as stated: every template in the store has room for the 7 reserved
\* bytes at its reserved offset.
C9_ReservedRegionFits ==
    blockTemplate # 0 =>
        heap[blockTemplate].reservedOffset + 7 <= Len(heap[blockTemplate].buffer)

(***************************************************************************)
(* Store properties (checked under SpecStore)                              *)
(***************************************************************************)

\* C10: a reader's fields all come from the one snapshot it loaded, as
\* that snapshot was when it was stored; a stored snapshot is never
\* written again, and the store only ever points to a stored snapshot.
C10_ReadersSeeOneSnapshot ==
    /\ \A p \in DOMAIN published : p \in DOMAIN heap /\ heap[p] = published[p]
    /\ blockTemplate # 0 => blockTemplate \in DOMAIN published
    /\ \A i \in Readers :
         readers[i].pc = "reading" =>
           /\ readers[i].ptr \in DOMAIN published
           /\ \A f \in DOMAIN readers[i].seen :
                readers[i].seen[f] = published[readers[i].ptr][f]
           /\ \E g \in 1..NGens :
                \A f \in DOMAIN readers[i].seen :
                  readers[i].seen[f] =
                    [NewTemplate(GenReply(g)) EXCEPT
                       !.buffer = BlockBytes(ReservedLen, g)][f]

\* C10 witness: a reader has read every field of a snapshot that was
\* replaced while it was reading
C10_Witness ==
    \E i \in Readers :
      /\ readers[i].pc = "reading"
      /\ Cardinality(DOMAIN readers[i].seen) = Len(Fields)
      /\ readers[i].ptr # blockTemplate
      /\ readers[i].seen.prevHash # heap[blockTemplate].prevHash
      /\ refresher.pc = "decode"

(***************************************************************************)
(* Blob mutator properties (checked under SpecBlob)                        *)
(***************************************************************************)

\* C11: for a template with reservedOffset + 7 <= len(buffer), no call
\* panics, and the bytes a call hands to the reserialization transform are
\* as many as the template's buffer and equal to it outside
\* [reservedOffset, reservedOffset + 7); the first 4 bytes of that region
\* are the extra nonce, most significant byte first, the last 3 the
\* instance id.
C11_OnlyReservedRegionWritten ==
    snapshot.reservedOffset + 7 <= Len(snapshot.buffer) =>
        /\ ~crashed
        /\ \A i \in Miners :
             miners[i].pc = "convert" =>
               LET out == arrays[miners[i].blobBuff]
                   off == snapshot.reservedOffset
                   n   == miners[i].extraNonce
               IN  /\ Len(out) = Len(snapshot.buffer)
                   /\ \A k \in 0..(Len(out) - 1) :
                        (k < off \/ k >= off + 7) =>
                            out[k + 1] = snapshot.buffer[k + 1]
                   /\ 256 * out[off + 1] + out[off + 2] = n.hi
                   /\ 256 * out[off + 3] + out[off + 4] = n.lo
                   /\ \A j \in 0..2 :
                        out[off + 4 + j + 1] = miners[i].instanceId[j + 1]

\* C11 witness: the blob for extra nonce 0x01020304, built from a template
\* whose reserved region starts after its first byte
C11_Witness ==
    \E i \in Miners :
      /\ miners[i].pc = "convert"
      /\ miners[i].extraNonce = U32(258, 772)
      /\ snapshot.reservedOffset = 1
      /\ Len(snapshot.buffer) = 8
      /\ SubSeq(arrays[miners[i].blobBuff], 2, 5) = <<1, 2, 3, 4>>
      /\ arrays[miners[i].blobBuff][1] = snapshot.buffer[1]

\* C12: no step of a nextBlob call changes the template or the bytes of
\* its buffer, however the calls of several sessions interleave, and two
\* calls with the same extra nonce and instance id build the same bytes.
C12_TemplateNeverWritten ==
    /\ [][ /\ snapshot' = snapshot
           /\ arrays'[TemplateArray] = arrays[TemplateArray] ]_vars
    /\ [](arrays[TemplateArray] = snapshot.buffer)
    /\ [](\A i, j \in Miners :
            ( /\ miners[i].pc = "convert" /\ miners[j].pc = "convert"
              /\ miners[i].extraNonce = miners[j].extraNonce
              /\ miners[i].instanceId = miners[j].instanceId )
            => arrays[miners[i].blobBuff] = arrays[miners[j].blobBuff])

\* C12 witness: one session has built its blob while another, with a
\* different nonce, is half way through its own, and the template's
\* buffer is as it was published
C12_Witness ==
    \E i, j \in Miners :
      /\ miners[i].pc = "convert" /\ miners[j].pc = "nonce"
      /\ miners[i].extraNonce # miners[j].extraNonce
      /\ snapshot.reservedOffset + 7 <= Len(snapshot.buffer)
      /\ arrays[miners[i].blobBuff] # arrays[TemplateArray]
      /\ arrays[miners[j].blobBuff] # arrays[TemplateArray]
      /\ arrays[TemplateArray] = snapshot.buffer

\* C13: two blobs built from the one template with the same instance id
\* and different extra nonces differ in the bytes of the reserved region.
C13_DistinctNoncesDistinctRegions ==
    \A i, j \in Miners :
      ( /\ miners[i].pc = "convert" /\ miners[j].pc = "convert"
        /\ miners[i].instanceId = miners[j].instanceId
        /\ miners[i].extraNonce # miners[j].extraNonce )
      => LET off == snapshot.reservedOffset
         IN  SubSeq(arrays[miners[i].blobBuff], off + 1, off + 7)
               # SubSeq(arrays[miners[j].blobBuff], off + 1, off + 7)

\* C13 witness: two blobs whose extra nonces differ only in the upper half
C13_Witness ==
    \E i, j \in Miners :
      /\ miners[i].pc = "convert" /\ miners[j].pc = "convert"
      /\ miners[i].instanceId = miners[j].instanceId
      /\ miners[i].extraNonce = U32(0, 0)
      /\ miners[j].extraNonce = U32(1, 0)
      /\ arrays[miners[i].blobBuff] # arrays[miners[j].blobBuff]

(***************************************************************************)
(* Transport properties (checked under SpecCalls and SpecHttp)             *)
(***************************************************************************)

\* C14: a call that obtains no response, and a call answered with an
\* error object, each make exactly one markSick (the error object's
\* message, when it has one, being the text of the error returned); a call
\* whose result does not decode returns a decode error and leaves sick,
\* sickRate, successRate and FailsCount as they were.
C14_FailuresReported ==
    [][ LET k == call'.resp.kind
            oneFailure ==
                /\ report' = "markSick"
                /\ sickRate' = sickRate + 1
                /\ successRate' = 0
                /\ sick' = (sick \/ sickRate + 1 >= 5)
                /\ FailsCount' = FailsCount + (IF sick THEN 0 ELSE 1)
        IN  /\ k = "NetErr" =>
                 (oneFailure /\ ~crashed' /\ call'.ret.err # "")
            /\ k \in {"ErrorMsg", "ErrorNoMsg"} => oneFailure
            /\ k = "ErrorMsg" =>
                 (~crashed' /\ call'.ret.err = call'.resp.message)
            /\ ( /\ k = "BadResult"
                 /\ call'.op \in {"Check", "GetBlockTemplate", "UpdateInfo",
                                  "GetBlockHash"} ) =>
                 /\ ~crashed'
                 /\ call'.ret.err = "DecodeError"
                 /\ report' = "none"
                 /\ UNCHANGED healthVars
      ]_vars

\* C14 witness: a result of the wrong shape arrives after three failures
\* and is returned as a decode error, the three failures still counted
C14_Witness ==
    /\ call.op = "GetBlockTemplate" /\ call.resp.kind = "BadResult"
    /\ call.ret.err = "DecodeError" /\ report = "none"
    /\ sickRate = 3 /\ hist.failRun = 3 /\ FailsCount = 3 /\ ~sick

\* C15 as stated: a call answered with an HTTP error status, whatever the
\* body, returns an error and is reported as a failure, so that 5 of them
\* with no success between leave the endpoint sick.  (Stated of the calls
\* that return.)
C15_HttpErrorIsFailure ==
    (call.op # "" /\ HttpError(call.resp) /\ ~crashed) =>
        /\ call.ret.err # ""
        /\ report = "markSick"
        /\ (hist.failRun >= 5 => Sick)

\* C16 as stated: no operation panics, and every operation returns an
\* error or, where it returns a pointer to a reply, a reply.
C16_EveryOutcomeReturned ==
    /\ ~crashed
    /\ call.op \in {"GetBlockTemplate", "UpdateInfo", "GetBlockHash",
                    "SubmitBlock", "ValidateAddress"} =>
           (call.ret.err # "" \/ ~call.ret.isNil)

\* C17 as stated: Info returns nothing until an UpdateInfo has succeeded;
\* an UpdateInfo that returns a reply makes Info return that reply, and
\* any other UpdateInfo, like any other operation, leaves what Info
\* returns unchanged.
C17_InfoIsLastGoodReply ==
    /\ (call.op = "" => Info.isNil)
    /\ [][ IF /\ call'.op = "UpdateInfo" /\ ~crashed'
              /\ call'.ret.err = "" /\ ~call'.ret.isNil
             THEN Info' = [isNil |-> FALSE, reply |-> call'.resp.payload]
             ELSE Info' = Info
         ]_vars

\* C18 as stated: UpdateInfo, whatever the outcome of its get_info call,
\* leaves sick, sickRate, successRate and FailsCount unchanged.
C18_InfoLeavesHealthAlone ==
    [][call'.op = "UpdateInfo" => UNCHANGED healthVars]_vars

\* C18 amended: UpdateInfo makes no health report of its own and never a
\* markAlive; its get_info call makes exactly one markSick when it obtains
\* no response, no JSON envelope, or an envelope with an error object, and
\* otherwise the health fields are unchanged.
C18_InfoReportsOnlyTransportFailures ==
    [][ call'.op = "UpdateInfo" =>
          /\ report' # "markAlive"
          /\ report' = "markSick" <=>
               call'.resp.kind \in {"NetErr", "BadJson", "ErrorMsg",
                                    "ErrorNoMsg"}
          /\ report' = "markSick" =>
               /\ sickRate' = sickRate + 1
               /\ successRate' = 0
               /\ sick' = (sick \/ sickRate + 1 >= 5)
               /\ FailsCount' = FailsCount + (IF sick THEN 0 ELSE 1)
          /\ report' = "none" => UNCHANGED healthVars
      ]_vars

\* C18 witness: the endpoint has turned sick on an UpdateInfo that got no
\* response, and no info was stored
C18_Witness ==
    /\ call.op = "UpdateInfo" /\ call.resp.kind = "NetErr"
    /\ report = "markSick" /\ sick /\ sickRate = 5
    /\ Info.isNil

\* C19: markAlive is made by a Check whose GetBlockTemplate returned no
\* error, exactly once, and by nothing else; such a Check returns the
\* negation of sick as it is after the markAlive; a Check whose call
\* failed returns (false, error); every other operation that returns no
\* error leaves the health fields unchanged.
C19_OnlyCheckReportsSuccess ==
    [][ LET good == ~crashed' /\ call'.ret.err = ""
            n    == successRate + 1
        IN  /\ report' = "markAlive" => (call'.op = "Check" /\ good)
            /\ (call'.op = "Check" /\ good) =>
                 /\ report' = "markAlive"
                 /\ successRate' = (IF n >= 5 THEN 0 ELSE n)
                 /\ sickRate' = (IF n >= 5 THEN 0 ELSE sickRate)
                 /\ sick' = (sick /\ n < 5)
                 /\ FailsCount' = FailsCount
                 /\ call'.ret.ok = ~sick'
            /\ (call'.op = "Check" /\ ~crashed' /\ call'.ret.err # "") =>
                 (call'.ret.ok = FALSE /\ report' # "markAlive")
            /\ (call'.op # "Check" /\ good) => UNCHANGED healthVars
      ]_vars

\* C19 witness: a Check succeeds on a sick endpoint for the fourth time in
\* a row and returns false
C19_Witness ==
    /\ call.op = "Check" /\ call.ret.err = "" /\ call.ret.ok = FALSE
    /\ report = "markAlive" /\ sick /\ successRate = 4 /\ sickRate = 5

(***************************************************************************)
(* Lock properties (checked under SpecLock)                                *)
(***************************************************************************)

\* C20: whenever no caller holds the write lock, the health fields are
\* those that the completed markSick and markAlive calls give when applied
\* whole, one after the other (no update is lost), sick is true exactly
\* when sickRate >= 5, and successRate is between 0 and 4; a Sick call
\* returns the sick of such a state.
C20_CallsAreAtomic ==
    /\ mutex.writer = 0 =>
         /\ Health = linear
         /\ sick <=> sickRate >= 5
         /\ successRate >= 0 /\ successRate <= 4
    /\ \A i \in Callers :
         (callers[i].op = "Sick" /\ callers[i].pc = "unlock") =>
             /\ mutex.writer = 0
             /\ callers[i].ret = linear.sick

\* C20 witness: a markSick holds the lock half way through turning the
\* endpoint sick (sickRate is 5, sick still false) while a markAlive and a
\* Sick wait for it
C20_Witness ==
    \E i, j \in Callers :
      /\ mutex.writer = i /\ callers[i].pc = "L184"
      /\ sickRate = 5 /\ ~sick /\ FailsCount = 5
      /\ callers[j].pc = "lock" /\ callers[j].op = "markAlive"
      /\ linear.sickRate = 4
=============================================================================
